---- MODULE Spec2Model ----
(***************************************************************************)
(* A model of go-pathlib's lexical path engine (pkg/pathlib): the path     *)
(* flavors (flavor.go) and the parser and algebra of PurePath              *)
(* (pure_path.go).                                                         *)
(*                                                                         *)
(* A Go string is a sequence of one-character strings; every path the      *)
(* model handles is ASCII, so bytes and runes coincide.  Go's 0-based,     *)
(* half-open slices are written with Slice and From.                       *)
(***************************************************************************)
EXTENDS Integers, Sequences, FiniteSets, TLC

VARIABLES
    flavor,     \* the flavor of the paths under construction: "posix" | "windows"
    pc,         \* position of the calling program
    paths,      \* the strings handed to the call (paths ...string)
    drive,      \* drive returned by the call
    root,       \* root returned by the call
    rest,       \* SplitRoot: third result (the relative remainder)
    parts,      \* parseParts: the parts returned
    heap,       \* the arrays behind the parts slices of the PurePath values
    objs,       \* the PurePath values the calling program holds
    ret,        \* what the last PurePath method returned
    call,       \* the last PurePath method call: the method, the value its
                \* receiver had when it was called, and its argument
    fs,         \* the filesystem behind a Path: the target of each symlink
    depth,      \* ResolveAll: the nesting of resolveAllHelper calls
    caps,       \* the afero interfaces the filesystem behind a Path implements
    latest,     \* GetLatest: its locals files, i and greatestFileSeen
    walk        \* Walk: its options, the work it has left, the directories it
                \* has read, and the visitor's invocations and returns

vars == <<flavor, pc, paths, drive, root, rest, parts, heap, objs, ret, call, fs, depth, caps,
          latest, walk>>

\* what the callers of SplitRoot and parseParts leave alone
outsideParser == <<heap, objs, ret, call, fs, depth, caps, latest, walk>>

\* what the caller of the PurePath methods leaves alone
outsideAlgebra == <<paths, drive, root, rest, parts, fs, depth, caps, latest, walk>>

\* what Walk leaves alone
outsideWalk == <<flavor, paths, drive, root, rest, parts, heap, objs, call, fs, depth, caps,
                 latest>>

-----------------------------------------------------------------------------
(* Bounds of the model *)

\* SplitRoot: characters typed after the optional extended-length prefix
MaxPathLen == 6

\* parseParts: number of strings handed to one call, and their total length
MaxPaths == 3
MaxTotalLen == 5

\* PurePath values the calling program holds at once
MaxObjs == 2

\* length of the path string typed for the name methods
MaxNameLen == 5

\* PurePath values held by a program that takes parents of one path
MaxLineage == 4

\* length of the path string typed for ResolveAll
MaxResolveLen == 4

\* nesting of resolveAllHelper calls (the code has no cap: a cycle of links
\* recurses without end)
MaxDepth == 6

\* symlinks the kernel follows in one lookup before it gives up (ELOOP)
MaxSymlinks == 8

\* entries of the directory GetLatest reads, and the range of their
\* modification times
MaxEntries == 3
MaxMtime == 3

\* levels of the tree Walk is run on
MaxTreeDepth == 3

-----------------------------------------------------------------------------
(* Characters and Go string helpers *)

BS == "\\"
Slash == "/"
Colon == ":"
Dot == "."

\* utf8.RuneError, the placeholder of a rune that is not there: no character
\* of the model equals it
RuneError == "RuneError"

LowerLetters == <<"a","b","c","d","e","f","g","h","i","j","k","l","m",
                  "n","o","p","q","r","s","t","u","v","w","x","y","z">>
UpperLetters == <<"A","B","C","D","E","F","G","H","I","J","K","L","M",
                  "N","O","P","Q","R","S","T","U","V","W","X","Y","Z">>

Range(s) == {s[i] : i \in DOMAIN s}

\* the function f over 1..n as a sequence value
AsSeq(f) == SubSeq(f, 1, Len(f))

\* Body applied to the value of e: e is evaluated once, however often Body
\* uses it
With(e, Body(_)) == CHOOSE r \in {Body(x) : x \in {e}} : TRUE

\* s[lo:hi]
Slice(s, lo, hi) == SubSeq(s, lo + 1, hi)

\* s[lo:]
From(s, lo) == SubSeq(s, lo + 1, Len(s))

\* strings.HasPrefix
HasPrefix(s, p) == Len(p) <= Len(s) /\ SubSeq(s, 1, Len(p)) = p

\* strings.Index / strings.IndexRune for a one-character needle: the 0-based
\* index of the first c in s, -1 if there is none
IndexOf(s, c) ==
    IF \E i \in DOMAIN s : s[i] = c
    THEN (CHOOSE i \in DOMAIN s : s[i] = c /\ \A j \in 1..(i - 1) : s[j] # c) - 1
    ELSE -1

\* strings.TrimLeft(s, c) for a one-character cutset
TrimLeft(s, c) ==
    IF \A i \in DOMAIN s : s[i] = c
    THEN <<>>
    ELSE From(s, (CHOOSE i \in DOMAIN s : s[i] # c /\ \A j \in 1..(i - 1) : s[j] = c) - 1)

-----------------------------------------------------------------------------
(* flavor.go *)

\* no method has been called yet
NoCall == [op |-> "none"]

\* no filesystem: PurePath does no I/O
NoFs == <<>>

Flavors == {"posix", "windows"}

Separator(f) == IF f = "posix" THEN <<Slash>> ELSE <<BS>>

AltSeparator(f) == IF f = "posix" THEN <<>> ELSE <<Slash>>

HasDrive(f) == f = "windows"

windowsDriveLetters == Range(LowerLetters) \cup Range(UpperLetters)

\* a doubled root for every run of two or more slashes
PosixDoubleRootAtLeast(n) == n >= 2

\* the number of leading slashes that keeps the doubled root
PosixDoubleRoot(n) == n = 2

posixSplitRoot(path) ==
    IF Len(path) > 0 /\ Slice(path, 0, 1) = <<Slash>>
    THEN LET stripped == TrimLeft(path, Slash)
         IN  IF PosixDoubleRoot(Len(path) - Len(stripped))
             THEN [drive |-> <<>>, root |-> <<Slash, Slash>>, rest |-> stripped]
             ELSE [drive |-> <<>>, root |-> <<Slash>>, rest |-> stripped]
    ELSE [drive |-> <<>>, root |-> <<>>, rest |-> path]

runesIndexOffset(runes, r, offset) ==
    IF offset >= Len(runes) - 1
    THEN -1
    ELSE IndexOf(From(runes, offset), r) + offset

ExtendedPrefix == <<BS, BS, "?", BS>>
UNCMarker == <<"U", "N", "C", BS>>

\* a trim that drops a single separator only
TrimLeftOneSep(runes) == IF runes # <<>> /\ runes[1] = BS THEN Tail(runes) ELSE runes

\* the loop "trim left" of windowsFlavor.SplitRoot
TrimLeftSep(runes) == TrimLeft(runes, BS)

\* the part of windowsFlavor.SplitRoot after the UNC branch: drive letter,
\* root and remainder
windowsSplitDrive(prefix, runes, first, second, third) ==
    LET isDrv  == second = Colon /\ first \in windowsDriveLetters
        drv    == IF isDrv THEN Slice(runes, 0, 2) ELSE <<>>
        runes1 == IF isDrv THEN From(runes, 2) ELSE runes
        first1 == IF isDrv THEN third ELSE first
    IN  IF first1 = BS
        THEN [drive |-> prefix \o drv, root |-> <<first1>>, rest |-> TrimLeftSep(runes1)]
        ELSE [drive |-> prefix \o drv, root |-> <<>>, rest |-> runes1]

windowsSplitRoot(path0) ==
    LET ext    == HasPrefix(path0, ExtendedPrefix)
        unc    == ext /\ HasPrefix(From(path0, 4), UNCMarker)
        prefix == IF unc THEN Slice(path0, 0, 7)
                  ELSE IF ext THEN Slice(path0, 0, 4) ELSE <<>>
        runes  == IF unc THEN <<BS>> \o From(path0, 7)
                  ELSE IF ext THEN From(path0, 4) ELSE path0
        first  == IF Len(runes) > 0 THEN runes[1] ELSE RuneError
        second == IF Len(runes) > 1 THEN runes[2] ELSE RuneError
        third  == IF Len(runes) > 2 THEN runes[3] ELSE RuneError
        index  == runesIndexOffset(runes, BS, 2)
        index2 == runesIndexOffset(runes, BS, index + 1)
        end    == IF index2 = -1 THEN Len(runes) ELSE index2
        p      == IF end + 1 <= Len(runes) THEN From(runes, end + 1) ELSE <<>>
    IN  IF /\ second = BS /\ first = BS /\ third # BS
           /\ index # -1
           /\ index2 # index + 1
        THEN IF prefix # <<>>
             THEN [drive |-> prefix \o Slice(runes, 1, end), root |-> <<BS>>, rest |-> p]
             ELSE [drive |-> Slice(runes, 0, end), root |-> <<BS>>, rest |-> p]
        ELSE windowsSplitDrive(prefix, runes, first, second, third)

SplitRoot(f, path) ==
    With(path, LAMBDA p : IF f = "posix" THEN posixSplitRoot(p) ELSE windowsSplitRoot(p))

-----------------------------------------------------------------------------
(* The calling program of SplitRoot: it writes one path string, character  *)
(* by character, optionally after an extended-length prefix, and calls     *)
(* flavor.SplitRoot on it.                                                 *)

\* the characters the caller types, per flavor: both separators, a drive
\* letter, the colon and a plain character
SplitAlphabet(f) ==
    IF f = "posix" THEN {Slash, BS, Colon, "a"} ELSE {BS, Colon, "a", "Z", Dot}

PrefixOf(s) ==
    IF HasPrefix(s, ExtendedPrefix \o UNCMarker) THEN ExtendedPrefix \o UNCMarker
    ELSE IF HasPrefix(s, ExtendedPrefix) THEN ExtendedPrefix
    ELSE <<>>

InitSplit ==
    /\ flavor \in Flavors
    /\ pc = "input"
    /\ paths = << <<>> >>
    /\ drive = <<>>
    /\ root = <<>>
    /\ rest = <<>>
    /\ parts = <<>>
    /\ heap = <<>>
    /\ objs = <<>>
    /\ ret = <<"none">>
    /\ call = NoCall
    /\ fs = NoFs
    /\ depth = 0
    /\ caps = {}
    /\ latest = NoCall
    /\ walk = NoCall

\* the caller starts the path with \\?\
TypeExtendedPrefix ==
    /\ pc = "input"
    /\ flavor = "windows"
    /\ paths = << <<>> >>
    /\ paths' = <<ExtendedPrefix>>
    /\ UNCHANGED <<flavor, pc, drive, root, rest, parts>>
    /\ UNCHANGED outsideParser

\* the caller starts the path with \\?\UNC\
TypeExtendedUNCPrefix ==
    /\ pc = "input"
    /\ flavor = "windows"
    /\ paths = << <<>> >>
    /\ paths' = <<ExtendedPrefix \o UNCMarker>>
    /\ UNCHANGED <<flavor, pc, drive, root, rest, parts>>
    /\ UNCHANGED outsideParser

\* the caller appends one character to the path
TypeSplitChar ==
    /\ pc = "input"
    /\ Len(paths[1]) - Len(PrefixOf(paths[1])) < MaxPathLen
    /\ \E c \in SplitAlphabet(flavor) : paths' = <<Append(paths[1], c)>>
    /\ UNCHANGED <<flavor, pc, drive, root, rest, parts>>
    /\ UNCHANGED outsideParser

\* drive, root, rel := flavor.SplitRoot(path)
CallSplitRoot ==
    /\ pc = "input"
    /\ \E r \in {SplitRoot(flavor, paths[1])} :
           /\ drive' = r.drive
           /\ root' = r.root
           /\ rest' = r.rest
    /\ pc' = "split"
    /\ UNCHANGED <<flavor, paths, parts>>
    /\ UNCHANGED outsideParser

NextSplit ==
    \/ TypeExtendedPrefix
    \/ TypeExtendedUNCPrefix
    \/ TypeSplitChar
    \/ CallSplitRoot

SpecSplit == InitSplit /\ [][NextSplit]_vars

-----------------------------------------------------------------------------
(* pure_path.go: the parser *)

\* strings.Replace(s, old, new, -1) for one-character old and new
Replace(s, old, new) == AsSeq([i \in DOMAIN s |-> IF s[i] = old THEN new ELSE s[i]])

\* strings.Join
RECURSIVE JoinStr(_, _)
JoinStr(elems, sep) ==
    IF elems = <<>> THEN <<>>
    ELSE IF Len(elems) = 1 THEN elems[1]
    ELSE elems[1] \o sep \o JoinStr(Tail(elems), sep)

\* a tokenizer that keeps single-dot segments
AppendSegmentKeepDot(parts_, pp) ==
    IF pp # <<>> THEN Append(parts_, pp) ELSE parts_

\* if pp != "" && pp != "." { parts = append(parts, pp) }
AppendSegment(parts_, pp) ==
    IF pp # <<>> /\ pp # <<Dot>> THEN Append(parts_, pp) ELSE parts_

\* the tokenizing loop of parseParts
RECURSIVE Tokenize(_, _, _)
Tokenize(parts_, prel, sep) ==
    With(IndexOf(prel, sep), LAMBDA i :
        IF i >= 0
        THEN With(<<AppendSegment(parts_, Slice(prel, 0, i)), From(prel, i + 1)>>,
                  LAMBDA next :
                      IF i >= Len(prel) - 1
                      THEN next[1]
                      ELSE Tokenize(next[1], next[2], sep))
        ELSE AppendSegment(parts_, prel))

\* a root-only input that appends its anchor to the accumulated parts
AnchorKeepParts(acc, pdrive, proot) ==
    IF pdrive # <<>>
    THEN [drive |-> pdrive, root |-> proot, parts |-> <<pdrive \o proot>>]
    ELSE IF proot # <<>>
         THEN [drive |-> acc.drive, root |-> proot,
               parts |-> Append(acc.parts, acc.drive \o proot)]
         ELSE acc

\* a root-only input that seeds the parts with its root alone
AnchorRootSeed(acc, pdrive, proot) ==
    IF pdrive # <<>>
    THEN [drive |-> pdrive, root |-> proot, parts |-> <<pdrive \o proot>>]
    ELSE IF proot # <<>>
         THEN [drive |-> acc.drive, root |-> proot, parts |-> <<proot>>]
         ELSE acc

\* a root-only input that clears the drive
AnchorDropDrive(acc, pdrive, proot) ==
    IF pdrive # <<>>
    THEN [drive |-> pdrive, root |-> proot, parts |-> <<pdrive \o proot>>]
    ELSE IF proot # <<>>
         THEN [drive |-> <<>>, root |-> proot, parts |-> <<proot>>]
         ELSE acc

\* "replace parts, if current part is anchored"
Anchor(acc, pdrive, proot) ==
    IF pdrive # <<>>
    THEN [drive |-> pdrive, root |-> proot, parts |-> <<pdrive \o proot>>]
    ELSE IF proot # <<>>
         THEN [drive |-> acc.drive, root |-> proot, parts |-> <<acc.drive \o proot>>]
         ELSE acc

\* one iteration of parseParts' loop over the paths
parsePart(acc, part0, f) ==
    IF part0 = <<>>
    THEN acc
    ELSE LET part == IF AltSeparator(f) # <<>>
                     THEN Replace(part0, AltSeparator(f)[1], Separator(f)[1])
                     ELSE part0
         IN  With(SplitRoot(f, part), LAMBDA sr :
             With(Anchor(acc, sr.drive, sr.root), LAMBDA a :
                 [a EXCEPT !.parts = Tokenize(a.parts, sr.rest, Separator(f)[1])]))

RECURSIVE parseFrom(_, _, _)
parseFrom(acc, paths_, f) ==
    IF paths_ = <<>> THEN acc
    ELSE With(<<parsePart(acc, Head(paths_), f), Tail(paths_)>>, LAMBDA next :
             parseFrom(next[1], next[2], f))

parseParts(paths_, f) ==
    With(paths_, LAMBDA ps :
        parseFrom([drive |-> <<>>, root |-> <<>>, parts |-> <<>>], ps, f))

\* PurePath.String: p is a record [drive, root, parts] of flavor f
String(p, f) ==
    IF p.drive # <<>> \/ p.root # <<>>
    THEN p.drive \o p.root \o JoinStr(Tail(p.parts), Separator(f))
    ELSE IF Len(p.parts) = 0 THEN <<Dot>>
    ELSE JoinStr(p.parts, Separator(f))

-----------------------------------------------------------------------------
(* The calling program of parseParts: it writes up to MaxPaths strings,    *)
(* character by character, and calls parseParts on them.                   *)

\* the characters the caller types, per flavor; a Windows caller writes the
\* alternative separator, which parseParts turns into the separator
ParseAlphabet(f) ==
    IF f = "posix" THEN {Slash, Dot, "a"} ELSE {Slash, Colon, Dot, "c"}

RECURSIVE TotalLen(_)
TotalLen(ss) == IF ss = <<>> THEN 0 ELSE Len(Head(ss)) + TotalLen(Tail(ss))

InitParse ==
    /\ flavor \in Flavors
    /\ pc = "input"
    /\ paths = <<>>
    /\ drive = <<>>
    /\ root = <<>>
    /\ rest = <<>>
    /\ parts = <<>>
    /\ heap = <<>>
    /\ objs = <<>>
    /\ ret = <<"none">>
    /\ call = NoCall
    /\ fs = NoFs
    /\ depth = 0
    /\ caps = {}
    /\ latest = NoCall
    /\ walk = NoCall

\* the caller starts another (so far empty) string
AddPath ==
    /\ pc = "input"
    /\ Len(paths) < MaxPaths
    /\ paths' = Append(paths, <<>>)
    /\ UNCHANGED <<flavor, pc, drive, root, rest, parts>>
    /\ UNCHANGED outsideParser

\* the caller appends one character to the string it is writing
TypePathChar ==
    /\ pc = "input"
    /\ paths # <<>>
    /\ TotalLen(paths) < MaxTotalLen
    /\ \E c \in ParseAlphabet(flavor) :
           paths' = [paths EXCEPT ![Len(paths)] = Append(@, c)]
    /\ UNCHANGED <<flavor, pc, drive, root, rest, parts>>
    /\ UNCHANGED outsideParser

\* drive, root, parts := parseParts(paths, flavor)
CallParseParts ==
    /\ pc = "input"
    /\ \E r \in {parseParts(paths, flavor)} :
           /\ drive' = r.drive
           /\ root' = r.root
           /\ parts' = r.parts
    /\ pc' = "parsed"
    /\ UNCHANGED <<flavor, paths, rest>>
    /\ UNCHANGED outsideParser

NextParse ==
    \/ AddPath
    \/ TypePathChar
    \/ CallParseParts

SpecParse == InitParse /\ [][NextParse]_vars

-----------------------------------------------------------------------------
(* More Go string helpers *)

\* strings.LastIndex for a one-character needle (0-based, -1 if none)
LastIndexOf(s, c) ==
    IF \E i \in DOMAIN s : s[i] = c
    THEN (CHOOSE i \in DOMAIN s : s[i] = c /\ \A j \in (i + 1)..Len(s) : s[j] # c) - 1
    ELSE -1

\* strings.HasSuffix and strings.TrimPrefix for a one-character affix
EndsWith(s, c) == s # <<>> /\ s[Len(s)] = c
TrimPrefixChar(s, c) == IF s # <<>> /\ s[1] = c THEN Tail(s) ELSE s

\* strings.Split for a one-character separator
RECURSIVE SplitOn(_, _)
SplitOn(s, c) ==
    LET i == IndexOf(s, c)
    IN  IF i = -1 THEN <<s>> ELSE <<Slice(s, 0, i)>> \o SplitOn(From(s, i + 1), c)

\* strings.ToLower, on the ASCII letters
ToLowerChar(c) ==
    IF \E i \in DOMAIN UpperLetters : UpperLetters[i] = c
    THEN LowerLetters[CHOOSE i \in DOMAIN UpperLetters : UpperLetters[i] = c]
    ELSE c
ToLower(s) == AsSeq([i \in DOMAIN s |-> ToLowerChar(s[i])])

\* filepath.Match on a Unix build, for patterns of literal characters, "*",
\* "?" and classes "[...]" that list their members: "*" matches any run of
\* non-"/" characters, "?" one of them, a class one of its members.  A class
\* that is empty or not closed is a bad pattern, which matches nothing.
RECURSIVE GlobMatch(_, _)
GlobMatch(pat, name) ==
    IF pat = <<>> THEN name = <<>>
    ELSE IF pat[1] = "*"
         THEN \/ GlobMatch(Tail(pat), name)
              \/ name # <<>> /\ name[1] # Slash /\ GlobMatch(pat, Tail(name))
    ELSE IF pat[1] = "?"
         THEN name # <<>> /\ name[1] # Slash /\ GlobMatch(Tail(pat), Tail(name))
    ELSE IF pat[1] = "["
         THEN LET close == IndexOf(pat, "]")
              IN  /\ close >= 2
                  /\ name # <<>>
                  /\ name[1] \in Range(Slice(pat, 1, close))
                  /\ GlobMatch(From(pat, close + 1), Tail(name))
    ELSE name # <<>> /\ name[1] = pat[1] /\ GlobMatch(Tail(pat), Tail(name))

\* filepath.Clean on a Unix build: the elements between slashes, without the
\* empty ones and ".", each ".." removing the element before it (or itself,
\* at the root)
RECURSIVE CleanElems(_, _, _)
CleanElems(out, elems, rooted) ==
    IF elems = <<>> THEN out
    ELSE LET e == Head(elems)
         IN  IF e = <<>> \/ e = <<Dot>>
             THEN CleanElems(out, Tail(elems), rooted)
             ELSE IF e = <<Dot, Dot>>
                  THEN IF out # <<>> /\ out[Len(out)] # <<Dot, Dot>>
                       THEN CleanElems(SubSeq(out, 1, Len(out) - 1), Tail(elems), rooted)
                       ELSE IF rooted
                            THEN CleanElems(out, Tail(elems), rooted)
                            ELSE CleanElems(Append(out, e), Tail(elems), rooted)
                  ELSE CleanElems(Append(out, e), Tail(elems), rooted)

filepathClean(path) ==
    LET rooted == path # <<>> /\ path[1] = Slash
        body   == JoinStr(CleanElems(<<>>, SplitOn(path, Slash), rooted), <<Slash>>)
        res    == (IF rooted THEN <<Slash>> ELSE <<>>) \o body
    IN  IF res = <<>> THEN <<Dot>> ELSE res

-----------------------------------------------------------------------------
(* flavor.go: case folding *)

Casefold(f, s) == IF f = "posix" THEN s ELSE ToLower(s)

\* what CasefoldParts leaves in the elements of the slice it is given (the
\* Windows flavor writes it into the slice's own array)
CasefoldParts(f, ps) ==
    IF f = "posix" THEN ps ELSE AsSeq([i \in DOMAIN ps |-> ToLower(ps[i])])

-----------------------------------------------------------------------------
(* pure_path.go: the algebra, on path values v = [drive, root, parts] *)

Name(v) ==
    IF Len(v.parts) = 0 \/ ((v.drive # <<>> \/ v.root # <<>>) /\ Len(v.parts) = 1)
    THEN <<>>
    ELSE v.parts[Len(v.parts)]

Suffix(v) ==
    LET name == Name(v)
        i    == LastIndexOf(name, Dot)
    IN  IF 0 < i /\ i < Len(name) - 1 THEN From(name, i) ELSE <<>>

\* a Suffixes that does not set a leading dot aside
SuffixesUntrimmed(v) ==
    LET name == Name(v)
    IN  IF EndsWith(name, Dot)
        THEN <<>>
        ELSE LET splits == Tail(SplitOn(name, Dot))
             IN  AsSeq([i \in DOMAIN splits |-> <<Dot>> \o splits[i]])

Suffixes(v) ==
    LET name == Name(v)
    IN  IF EndsWith(name, Dot)
        THEN <<>>
        ELSE LET splits == Tail(SplitOn(TrimPrefixChar(name, Dot), Dot))
             IN  AsSeq([i \in DOMAIN splits |-> <<Dot>> \o splits[i]])

Stem(v) ==
    LET name == Name(v)
        i    == LastIndexOf(name, Dot)
    IN  IF 0 < i /\ i < Len(name) - 1 THEN Slice(name, 0, i) ELSE name

\* the record of a call of method op on a receiver of value v
Called(op, v, arg) == [op |-> op, recv |-> v, arg |-> arg]

Failed == [err |-> TRUE]
Ok(d, r, ps) == [err |-> FALSE, drive |-> d, root |-> r, parts |-> ps]

\* a renaming that takes any name
WithNameUnchecked(v, f, name) ==
    IF Name(v) = <<>>
    THEN Failed
    ELSE Ok(v.drive, v.root, Append(SubSeq(v.parts, 1, Len(v.parts) - 1), name))

WithName(v, f, name) ==
    IF Name(v) = <<>>
    THEN Failed
    ELSE LET pr == parseParts(<<name>>, f)
         IN  IF \/ name = <<>>
                \/ From(name, Len(name) - 1) = Separator(f)
                \/ From(name, Len(name) - 1) = AltSeparator(f)
                \/ pr.drive # <<>> \/ pr.root # <<>> \/ Len(pr.parts) # 1
             THEN Failed
             ELSE Ok(v.drive, v.root, Append(SubSeq(v.parts, 1, Len(v.parts) - 1), name))

WithStem(v, f, stem) == WithName(v, f, stem \o Suffix(v))

\* strings.Contains(s, sub) for a substring of at most one character ("" is
\* contained in every string)
Contains(s, sub) == sub = <<>> \/ sub[1] \in Range(s)

\* a WithSuffix that replaces everything from the first interior dot
WithSuffixStripAll(v, f, suffix) ==
    IF \/ (suffix # <<>> /\ (~HasPrefix(suffix, <<Dot>>) \/ suffix = <<Dot>>))
       \/ Contains(suffix, Separator(f))
       \/ (AltSeparator(f) # <<>> /\ Contains(suffix, AltSeparator(f)))
       \/ Name(v) = <<>>
    THEN Failed
    ELSE LET name == Name(v)
             i    == IndexOf(Tail(name), Dot)
             kept == IF Suffix(v) = <<>> \/ i = -1 THEN name ELSE Slice(name, 0, i + 1)
         IN  Ok(v.drive, v.root, Append(SubSeq(v.parts, 1, Len(v.parts) - 1), kept \o suffix))

\* a WithSuffix that appends the suffix to the whole name
WithSuffixAppend(v, f, suffix) ==
    IF \/ (suffix # <<>> /\ (~HasPrefix(suffix, <<Dot>>) \/ suffix = <<Dot>>))
       \/ Contains(suffix, Separator(f))
       \/ (AltSeparator(f) # <<>> /\ Contains(suffix, AltSeparator(f)))
       \/ Name(v) = <<>>
    THEN Failed
    ELSE Ok(v.drive, v.root, Append(SubSeq(v.parts, 1, Len(v.parts) - 1), Name(v) \o suffix))

WithSuffix(v, f, suffix) ==
    IF \/ (suffix # <<>> /\ (~HasPrefix(suffix, <<Dot>>) \/ suffix = <<Dot>>))
       \/ Contains(suffix, Separator(f))
       \/ (AltSeparator(f) # <<>> /\ Contains(suffix, AltSeparator(f)))
    THEN Failed
    ELSE LET name      == Name(v)
             oldSuffix == Suffix(v)
             newName   == IF oldSuffix = <<>>
                          THEN name \o suffix
                          ELSE Slice(name, 0, Len(name) - Len(oldSuffix)) \o suffix
         IN  IF name = <<>>
             THEN Failed
             ELSE Ok(v.drive, v.root, Append(SubSeq(v.parts, 1, Len(v.parts) - 1), newName))

\* a join that parses the additional strings alone
JoinDropReceiver(v, f, more) == parseParts(more, f)

Join(v, f, more) == parseParts(<<String(v, f)>> \o more, f)

Clean(v, f) == parseParts(<<filepathClean(String(v, f))>>, f)

\* PurePath.Parent, on values
Parent(v) ==
    IF Len(v.parts) = 0 THEN [drive |-> <<>>, root |-> <<>>, parts |-> <<>>]
    ELSE IF Len(v.parts) = 1 /\ (v.drive # <<>> \/ v.root # <<>>) THEN v
    ELSE [v EXCEPT !.parts = SubSeq(v.parts, 1, Len(v.parts) - 1)]

\* PurePath.IsAbsolute
IsAbsolute(v, f) ==
    IF v.root = <<>> THEN FALSE ELSE ~HasDrive(f) \/ v.drive # <<>>

\* a sequence that keeps the anchor as the one element it is in parts
AbsPartsWhole(v) == v.parts

\* the sequence a path is compared by in RelativeTo: [drive, root, segments...]
\* if it has a root, its parts otherwise
AbsParts(v) ==
    IF v.root # <<>> THEN <<v.drive, v.root>> \o Tail(v.parts) ELSE v.parts

-----------------------------------------------------------------------------
(* pure_path.go: PurePath values in memory.  A PurePath holds its drive and  *)
(* root (immutable strings) and a slice of parts: len elements, from offset  *)
(* off, of the array heap[arr].  Methods that re-slice share the array.      *)

PartsOf(h, o) == SubSeq(h[o.arr], o.off + 1, o.off + o.len)

\* the value of a PurePath: what Drive(), Root() and Parts() return
View(h, o) == [drive |-> o.drive, root |-> o.root, parts |-> PartsOf(h, o)]

\* the heap after the elements of o's slice have been overwritten by ps
WriteParts(h, o, ps) ==
    [h EXCEPT ![o.arr] = SubSeq(@, 1, o.off) \o ps \o SubSeq(@, o.off + Len(ps) + 1, Len(@))]

\* an alignment of the pattern with the first parts of the path
AlignLeft(nParts, nPat, i) == i

\* the part that the i-th of nPat pattern parts is compared with: the loop of
\* Match walks both slices from their last elements
AlignRight(nParts, nPat, i) == nParts - nPat + i

\* PurePath.Match: the result and the heap it leaves
match(h, o, f, pattern0) ==
    With(<<View(h, o), parseParts(<<Casefold(f, pattern0)>>, f)>>, LAMBDA vp :
    With(CasefoldParts(f, vp[1].parts), LAMBDA parts_ :
        LET v        == vp[1]
            pat      == vp[2]
            anch     == pat.drive # <<>> \/ pat.root # <<>>
            patParts == IF anch THEN Tail(pat.parts) ELSE pat.parts
        IN  IF \/ Len(pat.parts) = 0
               \/ (pat.drive # <<>> /\ pat.drive # Casefold(f, v.drive))
               \/ (pat.root # <<>> /\ pat.root # Casefold(f, v.root))
            THEN [heap |-> h, res |-> FALSE]
            ELSE [heap |-> WriteParts(h, o, parts_),
                  res  |-> /\ IF anch THEN Len(pat.parts) = Len(parts_)
                                      ELSE Len(pat.parts) <= Len(parts_)
                           /\ \A i \in DOMAIN patParts :
                                  GlobMatch(patParts[i],
                                            parts_[AlignRight(Len(parts_), Len(patParts), i)])]))

\* PurePath.RelativeTo: whether it fails, the heap it leaves, and the result.
\* absParts is p.parts itself when p has no root (aliased), a fresh slice
\* otherwise; casefoldComp folds its first n elements in place before it
\* compares them.
relativeTo(h, o, f, others) ==
    IF others = <<>>
    THEN [err |-> TRUE, heap |-> h]
    ELSE With(<<View(h, o), parseParts(others, f)>>, LAMBDA vt :
         With(<<AbsParts(vt[1]), AbsParts(vt[2])>>, LAMBDA at :
             LET v        == vt[1]
                 abs      == at[1]
                 toAbs    == at[2]
                 aliased  == v.root = <<>>
                 n        == Len(toAbs)
                 compared == n # 0 /\ n <= Len(abs)
                 tp       == CasefoldParts(f, SubSeq(abs, 1, n))
                 op       == CasefoldParts(f, toAbs)
                 abs1     == IF compared THEN tp \o SubSeq(abs, n + 1, Len(abs)) ELSE abs
                 h1       == IF compared /\ aliased THEN WriteParts(h, o, tp) ELSE h
                 fails    == IF n = 0 THEN v.drive # <<>> \/ v.root # <<>>
                             ELSE ~compared \/ tp # op
             IN  IF fails
                 THEN [err |-> TRUE, heap |-> h1]
                 ELSE [err |-> FALSE, heap |-> h1, aliased |-> aliased,
                       root |-> IF n # 1 THEN <<>> ELSE v.root,
                       n |-> n, parts |-> SubSeq(abs1, n + 1, Len(abs1))]))

-----------------------------------------------------------------------------
(* The calling program of the PurePath methods: it builds paths of one     *)
(* flavor from a few strings and calls the methods on the paths it holds.  *)

S_ABc   == <<"A", "/", "B", ".", "c">>
S_rootA == <<"/", "A">>
S_drvA  == <<"C", ":", "/", "A">>

NewArgs     == {S_ABc, S_rootA, S_drvA}
NameArgs    == {<<"x", ".", "Y">>, <<".", "/", "c">>, <<>>, <<"c", "/">>, <<"c", "/", "d">>,
                <<"/", "c">>, <<"c", ":", "x">>}
StemArgs    == {<<"S">>}
SuffixArgs  == {<<".", "z">>, <<>>, <<"z">>, <<Dot>>, <<".", "/", "z">>, <<".", BS>>}
JoinArgs    == {<<"b">>, <<"/", "x">>}
OtherArgs   == {<<>>, <<<<>>>>, <<<<"a">>>>, <<<<"A">>>>, <<<<"/">>>>, <<<<"/", "a">>>>,
                <<<<"c", ":">>>>, <<<<"c", ":", "/">>>>, <<<<"x">>>>, <<<<"/", "/">>>>,
                <<<<"a">>, <<"a">>>>, <<<<Dot>>>>}
PatternArgs == {<<"*", ".", "c">>, <<"a", "/", "*", ".", "c">>, <<"x", "/", "a", "/", "*", ".", "c">>,
                <<"*", "*">>, <<"[", "a", "b", "]">>, <<"?", "/", "a">>, <<Dot>>, <<"b">>,
                <<"/", "a", "/", "*">>, <<"/", "a">>, <<"/", "*">>, <<"c", ":", "/", "a">>}

InitAlgebra ==
    /\ flavor \in Flavors
    /\ pc = "start"
    /\ paths = <<>>
    /\ drive = <<>>
    /\ root = <<>>
    /\ rest = <<>>
    /\ parts = <<>>
    /\ heap = <<>>
    /\ objs = <<>>
    /\ ret = <<"none">>
    /\ call = NoCall
    /\ fs = NoFs
    /\ depth = 0
    /\ caps = {}
    /\ latest = NoCall
    /\ walk = NoCall

\* a path with a parts array of its own enters the program
Fresh(d, r, ps) ==
    /\ heap' = Append(heap, ps)
    /\ objs' = Append(objs, [drive |-> d, root |-> r, arr |-> Len(heap) + 1,
                             off |-> 0, len |-> Len(ps)])
    /\ ret' = <<"path", Len(objs) + 1>>

\* the outcome of a method that returns (PurePath, error)
Returned(res) ==
    IF res.err
    THEN heap' = heap /\ objs' = objs /\ ret' = <<"error">>
    ELSE Fresh(res.drive, res.root, res.parts)

Room == Len(objs) < MaxObjs

\* the paths the calling program may hold: a program that only takes parents
\* (it has typed its path, and its paths share one array) holds a whole
\* lineage
Capacity == IF paths = <<>> THEN MaxObjs ELSE MaxLineage

\* p := newPurePathWithFlavor(flavor, s)
CallNew ==
    /\ Room
    /\ \E s_ \in NewArgs :
           /\ \E r \in {parseParts(<<s_>>, flavor)} : Fresh(r.drive, r.root, r.parts)
           /\ call' = [op |-> "New", arg |-> s_]
    /\ pc' = "New"
    /\ UNCHANGED <<flavor>>
    /\ UNCHANGED outsideAlgebra

CallName ==
    /\ \E i \in DOMAIN objs :
           /\ ret' = <<"string", Name(View(heap, objs[i]))>>
           /\ call' = Called("Name", View(heap, objs[i]), <<>>)
    /\ pc' = "Name"
    /\ UNCHANGED <<flavor, heap, objs>>
    /\ UNCHANGED outsideAlgebra

CallSuffix ==
    /\ \E i \in DOMAIN objs :
           /\ ret' = <<"string", Suffix(View(heap, objs[i]))>>
           /\ call' = Called("Suffix", View(heap, objs[i]), <<>>)
    /\ pc' = "Suffix"
    /\ UNCHANGED <<flavor, heap, objs>>
    /\ UNCHANGED outsideAlgebra

CallSuffixes ==
    /\ \E i \in DOMAIN objs :
           /\ ret' = <<"strings", Suffixes(View(heap, objs[i]))>>
           /\ call' = Called("Suffixes", View(heap, objs[i]), <<>>)
    /\ pc' = "Suffixes"
    /\ UNCHANGED <<flavor, heap, objs>>
    /\ UNCHANGED outsideAlgebra

CallStem ==
    /\ \E i \in DOMAIN objs :
           /\ ret' = <<"string", Stem(View(heap, objs[i]))>>
           /\ call' = Called("Stem", View(heap, objs[i]), <<>>)
    /\ pc' = "Stem"
    /\ UNCHANGED <<flavor, heap, objs>>
    /\ UNCHANGED outsideAlgebra

CallWithName ==
    /\ Room
    /\ \E i \in DOMAIN objs, a \in NameArgs :
           /\ \E r \in {WithName(View(heap, objs[i]), flavor, a)} : Returned(r)
           /\ call' = Called("WithName", View(heap, objs[i]), a)
    /\ pc' = "WithName"
    /\ UNCHANGED <<flavor>>
    /\ UNCHANGED outsideAlgebra

CallWithStem ==
    /\ Room
    /\ \E i \in DOMAIN objs, a \in StemArgs :
           /\ \E r \in {WithStem(View(heap, objs[i]), flavor, a)} : Returned(r)
           /\ call' = Called("WithStem", View(heap, objs[i]), a)
    /\ pc' = "WithStem"
    /\ UNCHANGED <<flavor>>
    /\ UNCHANGED outsideAlgebra

CallWithSuffix ==
    /\ Room
    /\ \E i \in DOMAIN objs, a \in SuffixArgs :
           /\ \E r \in {WithSuffix(View(heap, objs[i]), flavor, a)} : Returned(r)
           /\ call' = Called("WithSuffix", View(heap, objs[i]), a)
    /\ pc' = "WithSuffix"
    /\ UNCHANGED <<flavor>>
    /\ UNCHANGED outsideAlgebra

CallJoin ==
    /\ Room
    /\ \E i \in DOMAIN objs, a \in JoinArgs :
           /\ \E r \in {Join(View(heap, objs[i]), flavor, <<a>>)} :
                  Fresh(r.drive, r.root, r.parts)
           /\ call' = Called("Join", View(heap, objs[i]), <<a>>)
    /\ pc' = "Join"
    /\ UNCHANGED <<flavor>>
    /\ UNCHANGED outsideAlgebra

CallClean ==
    /\ Room
    /\ \E i \in DOMAIN objs :
           /\ \E r \in {Clean(View(heap, objs[i]), flavor)} :
                  Fresh(r.drive, r.root, r.parts)
           /\ call' = Called("Clean", View(heap, objs[i]), <<>>)
    /\ pc' = "Clean"
    /\ UNCHANGED <<flavor>>
    /\ UNCHANGED outsideAlgebra

\* PurePath.Parent: the empty path gets an empty path with a slice of its
\* own, a bare anchor is returned as it is, any other path gets its own slice
\* shortened by one
CallParent ==
    /\ Len(objs) < Capacity
    /\ \E i \in DOMAIN objs :
           LET o == objs[i]
           IN  /\ IF o.len = 0
                  THEN Fresh(<<>>, <<>>, <<>>)
                  ELSE /\ heap' = heap
                       /\ objs' = Append(objs,
                              IF o.len = 1 /\ (o.drive # <<>> \/ o.root # <<>>)
                              THEN o
                              ELSE [o EXCEPT !.len = @ - 1])
                       /\ ret' = <<"path", Len(objs) + 1>>
               /\ call' = Called("Parent", View(heap, o), <<>>)
    /\ pc' = "Parent"
    /\ UNCHANGED <<flavor>>
    /\ UNCHANGED outsideAlgebra

\* a count of parents that takes the anchor for a part to drop
numPartsWithAnchor(o) == o.len

\* the number of parents of a path: its parts beyond the anchor
numParents(o) == IF o.drive # <<>> \/ o.root # <<>> THEN o.len - 1 ELSE o.len

\* PurePath.Parents: every parent shares the receiver's array
CallParents ==
    /\ \E i \in DOMAIN objs :
           LET o       == objs[i]
               parents == AsSeq([k \in 1..numParents(o) |-> [o EXCEPT !.len = o.len - k]])
           IN  /\ Len(objs) + numParents(o) <= Capacity
               /\ objs' = objs \o parents
               /\ ret' = <<"paths", numParents(o)>>
               /\ call' = Called("Parents", View(heap, o), <<>>)
    /\ pc' = "Parents"
    /\ UNCHANGED <<flavor, heap>>
    /\ UNCHANGED outsideAlgebra

CallRelativeTo ==
    /\ Room
    /\ \E i \in DOMAIN objs, a \in OtherArgs :
           \E o \in {objs[i]} : \E r \in {relativeTo(heap, o, flavor, a)} :
               /\ call' = Called("RelativeTo", View(heap, o), a)
               /\ IF r.err
                  THEN heap' = r.heap /\ objs' = objs /\ ret' = <<"error">>
                  ELSE IF r.aliased
                       THEN /\ heap' = r.heap
                            /\ objs' = Append(objs, [drive |-> <<>>, root |-> r.root,
                                                     arr |-> o.arr, off |-> o.off + r.n,
                                                     len |-> o.len - r.n])
                            /\ ret' = <<"path", Len(objs) + 1>>
                       ELSE /\ heap' = Append(r.heap, r.parts)
                            /\ objs' = Append(objs, [drive |-> <<>>, root |-> r.root,
                                                     arr |-> Len(heap) + 1, off |-> 0,
                                                     len |-> Len(r.parts)])
                            /\ ret' = <<"path", Len(objs) + 1>>
    /\ pc' = "RelativeTo"
    /\ UNCHANGED <<flavor>>
    /\ UNCHANGED outsideAlgebra

CallIsRelativeTo ==
    /\ \E i \in DOMAIN objs, a \in OtherArgs :
           \E r \in {relativeTo(heap, objs[i], flavor, a)} :
               /\ heap' = r.heap
               /\ ret' = IF a = <<>> THEN <<"error">> ELSE <<"bool", ~r.err>>
               /\ call' = Called("IsRelativeTo", View(heap, objs[i]), a)
    /\ pc' = "IsRelativeTo"
    /\ UNCHANGED <<flavor, objs>>
    /\ UNCHANGED outsideAlgebra

CallMatch ==
    /\ \E i \in DOMAIN objs, a \in PatternArgs :
           \E r \in {match(heap, objs[i], flavor, a)} :
               /\ heap' = r.heap
               /\ ret' = <<"bool", r.res>>
               /\ call' = Called("Match", View(heap, objs[i]), a)
    /\ pc' = "Match"
    /\ UNCHANGED <<flavor, objs>>
    /\ UNCHANGED outsideAlgebra

NextAlgebra ==
    \/ CallNew
    \/ CallName
    \/ CallSuffix
    \/ CallSuffixes
    \/ CallStem
    \/ CallWithName
    \/ CallWithStem
    \/ CallWithSuffix
    \/ CallJoin
    \/ CallClean
    \/ CallParent
    \/ CallParents
    \/ CallRelativeTo
    \/ CallIsRelativeTo
    \/ CallMatch

SpecAlgebra == InitAlgebra /\ [][NextAlgebra]_vars

-----------------------------------------------------------------------------
(* The calling program of the name methods: it types one path string,      *)
(* builds a path from it and calls Name, Suffix, Suffixes, Stem and        *)
(* WithSuffix on the paths it holds.                                       *)

\* the characters of the typed path: a separator, the dot and a letter
NameAlphabet == {Slash, Dot, "a"}

InitNames ==
    /\ flavor \in Flavors
    /\ pc = "input"
    /\ paths = << <<>> >>
    /\ drive = <<>>
    /\ root = <<>>
    /\ rest = <<>>
    /\ parts = <<>>
    /\ heap = <<>>
    /\ objs = <<>>
    /\ ret = <<"none">>
    /\ call = NoCall
    /\ fs = NoFs
    /\ depth = 0
    /\ caps = {}
    /\ latest = NoCall
    /\ walk = NoCall

TypeNameChar ==
    /\ pc = "input"
    /\ Len(paths[1]) < MaxNameLen
    /\ \E c \in NameAlphabet : paths' = <<Append(paths[1], c)>>
    /\ UNCHANGED <<flavor, pc, drive, root, rest, parts>>
    /\ UNCHANGED outsideParser

\* p := newPurePathWithFlavor(flavor, the typed string)
CallNewTyped ==
    /\ pc = "input"
    /\ \E r \in {parseParts(paths, flavor)} : Fresh(r.drive, r.root, r.parts)
    /\ call' = [op |-> "New", arg |-> paths[1]]
    /\ pc' = "New"
    /\ UNCHANGED <<flavor>>
    /\ UNCHANGED outsideAlgebra

NextNames ==
    \/ TypeNameChar
    \/ CallNewTyped
    \/ CallName
    \/ CallSuffix
    \/ CallSuffixes
    \/ CallStem
    \/ CallWithSuffix

SpecNames == InitNames /\ [][NextNames]_vars

-----------------------------------------------------------------------------
(* A program that types one path and then takes parents of it and of the
   parents it got *)

NextLineage ==
    \/ TypeNameChar
    \/ CallNewTyped
    \/ CallParent
    \/ CallParents

SpecLineage == InitNames /\ [][NextLineage]_vars

-----------------------------------------------------------------------------
(* A program that types one path and makes it relative to another *)

NextInverse ==
    \/ TypeNameChar
    \/ CallNewTyped
    \/ CallRelativeTo

SpecInverse == InitNames /\ [][NextInverse]_vars

-----------------------------------------------------------------------------
(* path.go: ResolveAll on a POSIX filesystem.  The filesystem has the       *)
(* directories Dirs and, at each place of LinkSlots, a symlink or nothing;  *)
(* it does not change.  The process works in the directory Cwd.  A place is *)
(* the sequence of names that leads to it from the root.                    *)

Dirs == {<<>>, << <<"a">> >>, << <<"a">>, <<"a">> >>}
LinkSlots == {<< <<"l">> >>, << <<"a">>, <<"l">> >>}
Cwd == << <<"a">> >>

NoTarget == <<>>
LinkTargets == {<<"/", "a">>, <<"a">>, <<Dot, Dot>>, <<"a", "/", "l">>,
                <<"/", "a", "/", "l">>, <<"l">>, <<"/", "l">>}
FileSystems == [LinkSlots -> LinkTargets \cup {NoTarget}]

\* the names of a path string, as the kernel reads it
KernelNames(str) == SelectSeq(SplitOn(str, Slash), LAMBDA n : n # <<>>)

\* the kernel's lookup of the names comps from the directory at, with the
\* symlinks of links: the place reached, or an error for a missing name or
\* too many links.  A symlink at the last name is followed unless nofollow.
RECURSIVE Walk(_, _, _, _, _)
Walk(links, at, comps, nofollow, fuel) ==
    IF comps = <<>> THEN [err |-> FALSE, loop |-> FALSE, at |-> at, left |-> fuel]
    ELSE LET c     == Head(comps)
             more  == Tail(comps)
             child == Append(at, c)
         IN  IF c = <<Dot>> THEN Walk(links, at, more, nofollow, fuel)
             ELSE IF c = <<Dot, Dot>>
             THEN Walk(links, IF at = <<>> THEN at ELSE SubSeq(at, 1, Len(at) - 1),
                       more, nofollow, fuel)
             ELSE IF child \in Dirs THEN Walk(links, child, more, nofollow, fuel)
             ELSE IF child \in LinkSlots /\ links[child] # NoTarget
             THEN IF more = <<>> /\ nofollow THEN [err |-> FALSE, loop |-> FALSE, at |-> child, left |-> fuel]
                  ELSE IF fuel = 0 THEN [err |-> TRUE, loop |-> TRUE, at |-> child, left |-> fuel]
                  ELSE Walk(links, IF links[child][1] = Slash THEN <<>> ELSE at,
                            KernelNames(links[child]) \o more, nofollow, fuel - 1)
             ELSE [err |-> TRUE, loop |-> FALSE, at |-> child, left |-> fuel]

\* where the lookup of a path string starts
StartOf(str) == IF str # <<>> /\ str[1] = Slash THEN <<>> ELSE Cwd

\* Path.IsSymlink (Lstat) and Path.Readlink of a path string
Lstat(links, str) ==
    With(Walk(links, StartOf(str), KernelNames(str), TRUE, MaxSymlinks), LAMBDA w :
        [err    |-> w.err,
         link   |-> ~w.err /\ w.at \in LinkSlots,
         target |-> IF ~w.err /\ w.at \in LinkSlots THEN links[w.at] ELSE NoTarget])

\* a rewriting that takes a relative target as it stands, which makes it
\* relative to the working directory
rewriteTargetAlone(component, resolved, right, f) == Join(resolved, f, right)

\* a rewriting that joins a relative target onto the link itself
rewriteOntoLink(component, resolved, right, f) ==
    IF IsAbsolute(resolved, f)
    THEN Join(resolved, f, right)
    ELSE Join(Join(component, f, <<String(resolved, f)>>), f, right)

\* the argument of the recursive call of resolveAllHelper: the link's target
\* if it is absolute, the target joined onto the parent of the link if not,
\* and the parts right of the link joined onto that
rewrite(component, resolved, right, f) ==
    IF IsAbsolute(resolved, f)
    THEN Join(resolved, f, right)
    ELSE Join(Join(Parent(component), f, <<String(resolved, f)>>), f, right)

\* the optional afero interfaces Path asks its filesystem for
Capabilities == {"afero.Lstater", "afero.LinkReader"}

\* the errors of the filesystem itself (no such entry, too many links) and
\* the error of Path for a missing interface
IOError == "io"
ErrDoesNotImplement == "ErrDoesNotImplement"

\* the loop of resolveAllHelper from index i (0-based) on the path v, on a
\* filesystem implementing the interfaces has: Path.Lstat fails without
\* afero.Lstater, Path.Readlink without afero.LinkReader
RECURSIVE scanComponents(_, _, _, _, _)
scanComponents(links, has, v, f, i) ==
    IF i >= Len(v.parts) THEN [kind |-> "return", path |-> v, err |-> "nil"]
    ELSE IF "afero.Lstater" \notin has
    THEN [kind |-> "error", path |-> v, err |-> ErrDoesNotImplement]
    ELSE With(parseParts(SubSeq(v.parts, 1, i + 1), f), LAMBDA componentPath :
         With(Lstat(links, String(componentPath, f)), LAMBDA st :
             IF st.err THEN [kind |-> "error", path |-> v, err |-> IOError]
             ELSE IF st.link
             THEN IF "afero.LinkReader" \notin has
                  THEN [kind |-> "error", path |-> v, err |-> ErrDoesNotImplement]
                  ELSE [kind |-> "recurse", err |-> "nil",
                        path |-> rewrite(componentPath, parseParts(<<st.target>>, f),
                                         SubSeq(v.parts, i + 2, Len(v.parts)), f)]
             ELSE scanComponents(links, has, v, f, i + 1)))

ResolveAlphabet == {Slash, Dot, "a", "l"}

InitResolve ==
    /\ flavor = "posix"
    /\ pc = "input"
    /\ paths = << <<>> >>
    /\ drive = <<>>
    /\ root = <<>>
    /\ rest = <<>>
    /\ parts = <<>>
    /\ heap = <<>>
    /\ objs = <<>>
    /\ ret = <<"none">>
    /\ call = NoCall
    /\ fs \in FileSystems
    /\ depth = 0
    /\ caps \in SUBSET Capabilities
    /\ latest = NoCall
    /\ walk = NoCall

TypeResolveChar ==
    /\ pc = "input"
    /\ Len(paths[1]) < MaxResolveLen
    /\ \E c \in ResolveAlphabet : paths' = <<Append(paths[1], c)>>
    /\ UNCHANGED <<flavor, pc, drive, root, rest, parts>>
    /\ UNCHANGED outsideParser

\* p := NewPosixPath(the typed string); p.ResolveAll() enters resolveAllHelper
CallResolveAll ==
    /\ pc = "input"
    /\ \E r \in {parseParts(paths, flavor)} :
           /\ drive' = r.drive
           /\ root' = r.root
           /\ parts' = r.parts
    /\ call' = [op |-> "ResolveAll", arg |-> paths[1]]
    /\ pc' = "resolveAllHelper"
    /\ depth' = 1
    /\ UNCHANGED <<flavor, paths, rest, heap, objs, ret, fs, caps, latest, walk>>

\* one call of resolveAllHelper, up to its return or its recursive call
resolveAllHelper ==
    /\ pc = "resolveAllHelper"
    /\ \E r \in {scanComponents(fs, caps, [drive |-> drive, root |-> root, parts |-> parts],
                                 flavor, 0)} :
           /\ r.kind = "recurse" => depth < MaxDepth
           /\ drive' = r.path.drive
           /\ root' = r.path.root
           /\ parts' = r.path.parts
           /\ pc' = IF r.kind = "recurse" THEN pc ELSE r.kind
           /\ depth' = IF r.kind = "recurse" THEN depth + 1 ELSE depth
           /\ ret' = IF r.kind = "recurse" THEN ret ELSE <<r.kind, r.err>>
    /\ UNCHANGED <<flavor, paths, rest, heap, objs, call, fs, caps, latest, walk>>

NextResolve ==
    \/ TypeResolveChar
    \/ CallResolveAll
    \/ resolveAllHelper

SpecResolve == InitResolve /\ [][NextResolve]_vars

\* the symlink graph has no cycle: following any symlink comes to an end
\* (at an entry or at a missing name) without meeting too many links
Acyclic ==
    \A slot \in LinkSlots :
        fs[slot] # NoTarget =>
            ~Walk(fs, SubSeq(slot, 1, Len(slot) - 1), <<slot[Len(slot)]>>, FALSE,
                  MaxSymlinks).loop


-----------------------------------------------------------------------------
(* path.go: GetLatest on a directory whose entries an external actor may    *)
(* remove while GetLatest runs.  The directory is a function from the names *)
(* of its entries to their modification times.                              *)

EntryNames == 1..MaxEntries
Mtimes == 1..MaxMtime
Directories == UNION {[names -> Mtimes] : names \in SUBSET EntryNames}

\* the orders in which Readdirnames may list the names
Listings(names) ==
    {l \in [1..Cardinality(names) -> names] : \A i, j \in DOMAIN l : l[i] = l[j] => i = j}

\* the zero time.Time, before every modification time
ZeroTime == 0

ErrDirectoryEmpty == "ErrDirectoryEmpty"
ErrNotExist == "os.ErrNotExist"

\* Path.Mtime of the entry name in the directory dir
Mtime(dir, name) ==
    IF name \in DOMAIN dir THEN [time |-> dir[name], err |-> "nil"]
    ELSE [time |-> ZeroTime, err |-> ErrNotExist]

\* the bound of the loop of GetLatest over the listed entries (i counts
\* from 0): for i := 1; i < len(files)-1; i++
LoopBound(files) == Len(files) - 1

InitLatest ==
    /\ flavor = "posix"
    /\ pc = "start"
    /\ paths = <<>>
    /\ drive = <<>>
    /\ root = <<>>
    /\ rest = <<>>
    /\ parts = <<>>
    /\ heap = <<>>
    /\ objs = <<>>
    /\ ret = <<"none">>
    /\ call = NoCall
    /\ fs \in Directories
    /\ depth = 0
    /\ caps = Capabilities
    /\ latest = NoCall
    /\ walk = NoCall

\* GetLatest up to its loop: the directory is listed, and the first listed
\* entry is the greatest seen
CallGetLatest ==
    /\ pc = "start"
    /\ \E files \in Listings(DOMAIN fs) :
           IF Len(files) = 0
           THEN /\ pc' = "error"
                /\ ret' = <<"error", ErrDirectoryEmpty>>
                /\ latest' = [files |-> files, i |-> 0, greatestFileSeen |-> 0]
           ELSE /\ pc' = "loop"
                /\ ret' = ret
                /\ latest' = [files |-> files, i |-> 1, greatestFileSeen |-> files[1]]
    /\ call' = [op |-> "GetLatest", arg |-> fs]
    /\ UNCHANGED <<flavor, paths, drive, root, rest, parts, heap, objs, fs, depth, caps, walk>>

\* one turn of the loop of GetLatest, or its return when the loop is over
\* (files[i] of the code is latest.files[i + 1] here)
GetLatestStep ==
    /\ pc = "loop"
    /\ IF latest.i < LoopBound(latest.files)
       THEN LET file          == latest.files[latest.i + 1]
                greatestMtime == Mtime(fs, latest.greatestFileSeen)
                thisMtime     == Mtime(fs, file)
            IN  IF greatestMtime.err # "nil"
                THEN /\ pc' = "error"
                     /\ ret' = <<"error", greatestMtime.err>>
                     /\ latest' = latest
                ELSE /\ pc' = pc
                     /\ ret' = ret
                     /\ latest' = [latest EXCEPT
                            !.i = @ + 1,
                            !.greatestFileSeen =
                                IF thisMtime.time > greatestMtime.time THEN file ELSE @]
       ELSE /\ pc' = "return"
            /\ ret' = <<"path", latest.greatestFileSeen>>
            /\ latest' = latest
    /\ UNCHANGED <<flavor, paths, drive, root, rest, parts, heap, objs, call, fs, depth, caps,
                   walk>>

\* an external actor removes an entry after the directory was listed
RemoveEntry ==
    /\ pc = "loop"
    /\ \E name \in DOMAIN fs : fs' = [n \in DOMAIN fs \ {name} |-> fs[n]]
    /\ UNCHANGED <<flavor, pc, paths, drive, root, rest, parts, heap, objs, ret, call, depth,
                   caps, latest, walk>>

NextLatest ==
    \/ CallGetLatest
    \/ GetLatestStep
    \/ RemoveEntry

SpecLatest == InitLatest /\ [][NextLatest]_vars

-----------------------------------------------------------------------------
(* The traversal engine (Walk), after the specification: its code is not    *)
(* among the source files, only its tests are.  An entry of the tree is the *)
(* sequence of names that leads to it from the root of the walk; an entry   *)
(* named "d" is a directory, any other a file.  The trees hold no symlinks, *)
(* so followSymlinks plays no part.                                         *)

EntryKinds == <<"d", "f", "g">>
IsDirEntry(e) == e[Len(e)] = "d"

\* every entry a tree may hold, and the trees: with an entry its directory
AllEntries ==
    {e \in UNION {[1..n -> Range(EntryKinds)] : n \in 1..MaxTreeDepth} :
        \A i \in 1..(Len(e) - 1) : e[i] = "d"}
Trees == {t \in SUBSET AllEntries : \A e \in t : Len(e) > 1 => SubSeq(e, 1, Len(e) - 1) \in t}

\* the tree of the tests: two files, and a directory holding two files
TwoFilesAtRootTwoInSubdir == {<<"f">>, <<"g">>, <<"d">>, <<"d", "f">>, <<"d", "g">>}

\* the size of every file
FileSize == 1

AlgorithmBasic == "AlgorithmBasic"
AlgorithmDepthFirst == "AlgorithmDepthFirst"
ConfusedWandering == "ConfusedWandering"

\* the options of a walk: depth limit, traversal order (AlgorithmBasic is
\* PreorderFlat), size bounds and visit flags
WalkOpts ==
    [Depth : {-1, 0, 1},
     Algorithm : {AlgorithmBasic, AlgorithmDepthFirst, ConfusedWandering},
     MinimumFileSize : {-1, 2}, MaximumFileSize : {-1, 0},
     VisitFiles : BOOLEAN, VisitDirs : BOOLEAN]

\* what the visitor may return: continue, the stop signal, an error
Continue == "nil"
ErrStopWalk == "ErrStopWalk"
VisitorReturns == {Continue, ErrStopWalk, "oh no"}

\* a check of the order that takes every value for a traversal order
AnyOrder(order) == TRUE

\* the traversal orders Walk knows
KnownOrder(order) == order \in {AlgorithmBasic, AlgorithmDepthFirst}

\* the entries of a directory of the tree, in the order they are read
ChildrenOf(tree, dir) ==
    SelectSeq([i \in 1..Len(EntryKinds) |-> Append(dir, EntryKinds[i])],
              LAMBDA e : e \in tree)

\* a depth limit that counts the root of the walk as a level
WithinDepthFromRoot(maxDepth, dir) == maxDepth = -1 \/ Len(dir) < maxDepth

\* whether the entries of the directory dir are within the depth limit: the
\* children of the root are at depth 0
WithinDepth(maxDepth, dir) == maxDepth = -1 \/ Len(dir) <= maxDepth

\* the query specification: the kind of the entry is enabled and, for a
\* file, its size is within the bounds
PassesQuery(opts, e) ==
    IF IsDirEntry(e) THEN opts.VisitDirs
    ELSE /\ opts.VisitFiles
         /\ opts.MinimumFileSize = -1 \/ FileSize >= opts.MinimumFileSize
         /\ opts.MaximumFileSize = -1 \/ FileSize <= opts.MaximumFileSize

\* the work a directory that has been read leaves: PreorderFlat goes through
\* all its entries and then descends into its directories, DepthFirst
\* descends into an entry before it moves on to the next one
RECURSIVE Interleaved(_, _)
Interleaved(children, opts) ==
    IF children = <<>> THEN <<>>
    ELSE LET c == Head(children)
         IN  <<[do |-> "visit", entry |-> c]>>
             \o (IF IsDirEntry(c) /\ WithinDepth(opts.Depth, c)
                 THEN <<[do |-> "read", entry |-> c]>> ELSE <<>>)
             \o Interleaved(Tail(children), opts)

WorkOf(children, opts) ==
    IF opts.Algorithm = AlgorithmDepthFirst THEN Interleaved(children, opts)
    ELSE [i \in 1..Len(children) |-> [do |-> "visit", entry |-> children[i]]]
         \o [i \in 1..Len(SelectSeq(children, LAMBDA c :
                        IsDirEntry(c) /\ WithinDepth(opts.Depth, c))) |->
               [do |-> "read",
                entry |-> SelectSeq(children, LAMBDA c :
                              IsDirEntry(c) /\ WithinDepth(opts.Depth, c))[i]]]

\* a walk that surfaces whatever the visitor returned
SurfacedAsReturned(returned) == <<"error", returned>>

\* what Walk returns when the visitor has returned a value other than
\* continue: success for the stop signal, the error itself otherwise
Surfaced(returned) ==
    IF returned = ErrStopWalk THEN <<"nil">> ELSE <<"error", returned>>

ErrInvalidAlgorithm == "ErrInvalidAlgorithm"

InitWalk ==
    /\ flavor = "posix"
    /\ pc = "start"
    /\ paths = <<>>
    /\ drive = <<>>
    /\ root = <<>>
    /\ rest = <<>>
    /\ parts = <<>>
    /\ heap = <<>>
    /\ objs = <<>>
    /\ ret = <<"none">>
    /\ call = NoCall
    /\ fs = NoFs
    /\ depth = 0
    /\ caps = {}
    /\ latest = NoCall
    /\ \E opts \in WalkOpts, tree \in Trees :
           walk = [opts |-> opts, tree |-> tree, todo |-> <<>>, reads |-> <<>>,
                   calls |-> <<>>, returns |-> <<>>]

\* Walk(visitor): an order that is not known fails at once; otherwise the
\* root is the first directory to read
CallWalk ==
    /\ pc = "start"
    /\ IF KnownOrder(walk.opts.Algorithm)
       THEN /\ pc' = "walking"
            /\ ret' = ret
            /\ walk' = [walk EXCEPT !.todo = <<[do |-> "read", entry |-> <<>>]>>]
       ELSE /\ pc' = "return"
            /\ ret' = <<"error", ErrInvalidAlgorithm>>
            /\ walk' = walk
    /\ UNCHANGED outsideWalk

\* the next directory is read
ReadDirectory ==
    /\ pc = "walking"
    /\ walk.todo # <<>>
    /\ Head(walk.todo).do = "read"
    /\ walk' = [walk EXCEPT
           !.todo = WorkOf(ChildrenOf(walk.tree, Head(walk.todo).entry), walk.opts)
                       \o Tail(walk.todo),
           !.reads = Append(@, Head(walk.todo).entry)]
    /\ UNCHANGED <<pc, ret>>
    /\ UNCHANGED outsideWalk

\* the next entry goes through the query specification; if it passes, the
\* visitor is invoked, and anything but continue halts the walk
VisitEntry ==
    /\ pc = "walking"
    /\ walk.todo # <<>>
    /\ Head(walk.todo).do = "visit"
    /\ IF PassesQuery(walk.opts, Head(walk.todo).entry)
       THEN \E returned \in VisitorReturns :
               /\ walk' = [walk EXCEPT !.todo = Tail(@),
                                       !.calls = Append(@, Head(walk.todo).entry),
                                       !.returns = Append(@, returned)]
               /\ pc' = IF returned = Continue THEN pc ELSE "return"
               /\ ret' = IF returned = Continue THEN ret ELSE Surfaced(returned)
       ELSE /\ walk' = [walk EXCEPT !.todo = Tail(@)]
            /\ UNCHANGED <<pc, ret>>
    /\ UNCHANGED outsideWalk

\* nothing is left to do: Walk returns success
WalkDone ==
    /\ pc = "walking"
    /\ walk.todo = <<>>
    /\ pc' = "return"
    /\ ret' = <<"nil">>
    /\ UNCHANGED walk
    /\ UNCHANGED outsideWalk

NextWalk ==
    \/ CallWalk
    \/ ReadDirectory
    \/ VisitEntry
    \/ WalkDone

SpecWalk == InitWalk /\ [][NextWalk]_vars

-----------------------------------------------------------------------------
(* Properties of SplitRoot (checked under SpecSplit) *)

\* the length of the run of c that s starts with
LeadingCount(s, c) ==
    CHOOSE n \in 0..Len(s) :
        /\ \A i \in 1..n : s[i] = c
        /\ (n = Len(s) \/ s[n + 1] # c)

NoSep(s) == BS \notin Range(s)

\* C7: Windows SplitRoot recognises every UNC path.  For \\server\share or
\* \\?\UNC\server\share, with non-empty separator-free server and share of
\* any length, optionally followed by a separator and a remainder: the drive
\* is the text through the share, the root is one backslash, and rest is the
\* text after the separator that follows the share.
C7_UNCRecognised ==
    (flavor = "windows" /\ pc = "split") =>
        \A lead \in {<<BS, BS>>, ExtendedPrefix \o UNCMarker} :
            LET s  == paths[1]
                b  == From(s, Len(lead))
                i  == IndexOf(b, BS)
                b2 == From(b, i + 1)
                j  == IndexOf(b2, BS)
                share == IF j = -1 THEN b2 ELSE Slice(b2, 0, j)
                rem   == IF j = -1 THEN <<>> ELSE From(b2, j + 1)
            IN  ( /\ HasPrefix(s, lead)
                  /\ (lead = <<BS, BS>> => ~HasPrefix(s, ExtendedPrefix))
                  /\ i >= 1
                  /\ share # <<>> )
                => /\ drive = lead \o Slice(b, 0, i) \o <<BS>> \o share
                   /\ root = <<BS>>
                   /\ rest = rem

\* C8: Windows SplitRoot on [\\?\] letter ":" separators^k remainder gives
\* drive = prefix + letter + ":", root = one backslash iff k >= 1, and rest =
\* the remainder without the separator run.
C8_DriveLetter ==
    (flavor = "windows" /\ pc = "split") =>
        \A pre \in {<<>>, ExtendedPrefix} :
            LET s    == paths[1]
                body == From(s, Len(pre))
                k    == LeadingCount(From(body, 2), BS)
            IN  ( /\ HasPrefix(s, pre)
                  /\ Len(body) >= 2
                  /\ body[1] \in Range(LowerLetters) \cup Range(UpperLetters)
                  /\ body[2] = Colon )
                => /\ drive = pre \o <<body[1], Colon>>
                   /\ root = (IF k >= 1 THEN <<BS>> ELSE <<>>)
                   /\ rest = From(body, 2 + k)

\* C8 witness: an extended-length drive-letter path with a run of two
\* separators and a remainder has been split
C8_Witness ==
    /\ flavor = "windows"
    /\ pc = "split"
    /\ HasPrefix(paths[1], ExtendedPrefix \o <<"Z", Colon, BS, BS, "a">>)
    /\ drive = ExtendedPrefix \o <<"Z", Colon>>
    /\ root = <<BS>>
    /\ rest # <<>>

\* C9: POSIX SplitRoot never produces a drive; for a leading run of n slashes
\* the root is "//" exactly when n = 2, "/" when n = 1 or n >= 3, empty when
\* n = 0; rest is the input without the whole leading run.
C9_PosixSplitRoot ==
    (flavor = "posix" /\ pc = "split") =>
        LET s == paths[1]
            n == LeadingCount(s, Slash)
        IN  /\ drive = <<>>
            /\ root = (IF n = 0 THEN <<>>
                       ELSE IF n = 2 THEN <<Slash, Slash>> ELSE <<Slash>>)
            /\ rest = From(s, n)

\* C9 witness: a path with three or more leading slashes has been split into
\* the single root
C9_Witness ==
    /\ flavor = "posix"
    /\ pc = "split"
    /\ LeadingCount(paths[1], Slash) >= 3
    /\ root = <<Slash>>
    /\ rest # <<>>

\* C10: Windows SplitRoot treats \\name (a single separator-free name of any
\* length >= 1 after exactly two backslashes) as a rooted path without drive:
\* drive empty, root one backslash, rest the name; and the drive is always
\* empty, a letter and a colon, or a UNC / extended-length prefix, never a
\* lone separator.
C10_DoubleBackslashName ==
    (flavor = "windows" /\ pc = "split") =>
        LET s == paths[1]
        IN  /\ ( /\ HasPrefix(s, <<BS, BS>>)
                 /\ Len(s) >= 3
                 /\ NoSep(From(s, 2)) )
               => (drive = <<>> /\ root = <<BS>> /\ rest = From(s, 2))
            /\ \/ drive = <<>>
               \/ /\ Len(drive) = 2
                  /\ drive[1] \in Range(LowerLetters) \cup Range(UpperLetters)
                  /\ drive[2] = Colon
               \/ Len(drive) > 2 /\ HasPrefix(drive, <<BS, BS>>)

-----------------------------------------------------------------------------
(* Properties of parseParts (checked under SpecParse) *)

\* the separator characters of a flavor, the alternative one included
SepChars(f) == Range(Separator(f)) \cup Range(AltSeparator(f))

\* what SplitRoot sees of the i-th input
SplitOf(i) ==
    SplitRoot(flavor, IF AltSeparator(flavor) # <<>>
                      THEN Replace(paths[i], AltSeparator(flavor)[1], Separator(flavor)[1])
                      ELSE paths[i])

\* the inputs that carry a drive or a root, and those that carry a drive
AnchoredInputs == {i \in DOMAIN paths : SplitOf(i).drive # <<>> \/ SplitOf(i).root # <<>>}
DriveInputs == {i \in DOMAIN paths : SplitOf(i).drive # <<>>}

Last(S) == CHOOSE i \in S : \A j \in S : j <= i

\* the segments of a string: its maximal separator-free runs, without the
\* single dots
RECURSIVE Segments(_, _)
Segments(str, seps) ==
    IF str = <<>> THEN <<>>
    ELSE IF str[1] \in seps THEN Segments(Tail(str), seps)
    ELSE LET n   == CHOOSE m \in 1..Len(str) :
                        /\ \A i \in 1..m : str[i] \notin seps
                        /\ (m = Len(str) \/ str[m + 1] \in seps)
             seg == SubSeq(str, 1, n)
         IN  (IF seg = <<Dot>> THEN <<>> ELSE <<seg>>) \o Segments(From(str, n), seps)

\* the segments of the inputs i..Len(paths), in order
RECURSIVE SegmentsFrom(_)
SegmentsFrom(i) ==
    IF i > Len(paths) THEN <<>>
    ELSE Segments(paths[i], SepChars(flavor)) \o SegmentsFrom(i + 1)

\* C1: the (drive, root, parts) returned by parseParts: no part is empty or
\* "."; an anchored result has parts[0] = drive+root and no separator in any
\* later part; an unanchored result has no separator in any part.
C1_PartsNormalized ==
    pc = "parsed" =>
        /\ \A i \in DOMAIN parts : parts[i] # <<>> /\ parts[i] # <<Dot>>
        /\ (drive # <<>> \/ root # <<>>) =>
               /\ parts # <<>>
               /\ parts[1] = drive \o root
               /\ \A i \in 2..Len(parts) : Range(parts[i]) \cap SepChars(flavor) = {}
        /\ (drive = <<>> /\ root = <<>>) =>
               \A i \in DOMAIN parts : Range(parts[i]) \cap SepChars(flavor) = {}

\* C1 witness: an anchored result with segments, parsed from inputs one of
\* which held a single-dot segment
C1_Witness ==
    /\ pc = "parsed"
    /\ root # <<>>
    /\ Len(parts) >= 2
    /\ \E i \in DOMAIN paths : HasPrefix(paths[i], <<Dot, Slash>>)

\* C2: parsing is idempotent through the string form: parsing the String()
\* of a parsed path returns the same drive, root and parts.
C2_RoundTrip ==
    pc = "parsed" =>
        parseParts(<<String([drive |-> drive, root |-> root, parts |-> parts], flavor)>>,
                   flavor)
        = [drive |-> drive, root |-> root, parts |-> parts]

\* C4: last anchor wins: with k the last input carrying a drive or a root,
\* the root is that input's root, the drive is that input's drive if it has
\* one, and the parts are the anchor followed by the segments of input k
\* (after its anchor) and of the inputs after it.
C4_LastAnchorWins ==
    (pc = "parsed" /\ AnchoredInputs # {}) =>
        LET k == Last(AnchoredInputs)
        IN  /\ root = SplitOf(k).root
            /\ SplitOf(k).drive # <<>> => drive = SplitOf(k).drive
            /\ parts = <<drive \o root>>
                       \o Segments(SplitOf(k).rest, SepChars(flavor))
                       \o SegmentsFrom(k + 1)

\* C4 witness: three inputs, the first with segments of its own, the second
\* anchored, the third relative
C4_Witness ==
    /\ pc = "parsed"
    /\ Len(paths) = 3
    /\ Segments(paths[1], SepChars(flavor)) # <<>>
    /\ Last(AnchoredInputs \cup {0}) = 2
    /\ Segments(paths[3], SepChars(flavor)) # <<>>
    /\ Len(parts) = 2

\* C5: Windows: when the last anchored input has a root but no drive and an
\* earlier input supplied a drive, the result keeps that drive:
\* drive = the earlier drive, root = the later root, parts[0] = drive+root.
C5_RootKeepsDrive ==
    ( /\ pc = "parsed"
      /\ flavor = "windows"
      /\ AnchoredInputs # {}
      /\ SplitOf(Last(AnchoredInputs)).drive = <<>>
      /\ DriveInputs # {} ) =>
        LET k == Last(AnchoredInputs)
            j == Last(DriveInputs)
        IN  /\ drive = SplitOf(j).drive
            /\ root = SplitOf(k).root
            /\ parts[1] = SplitOf(j).drive \o SplitOf(k).root

\* C5 witness: a drive, then a root without drive, then a relative segment
C5_Witness ==
    /\ pc = "parsed"
    /\ flavor = "windows"
    /\ Len(paths) = 3
    /\ DriveInputs = {1}
    /\ AnchoredInputs = {1, 2}
    /\ drive = <<"c", Colon>>
    /\ parts = << <<"c", Colon, BS>>, <<"c">> >>

\* C6 as stated: when the last anchored input lacks a drive that an earlier
\* input supplied, the result has an empty drive.
C6_MissingDriveStands ==
    ( /\ pc = "parsed"
      /\ AnchoredInputs # {}
      /\ SplitOf(Last(AnchoredInputs)).drive = <<>>
      /\ DriveInputs # {} ) =>
        drive = <<>>

\* C6 amended: the drive of the result is the drive of the last input that
\* carries a drive (empty if no input carries one): a later input with a root
\* but no drive keeps the drive supplied earlier.
C6_DriveOfLastDriveInput ==
    pc = "parsed" =>
        drive = (IF DriveInputs = {} THEN <<>> ELSE SplitOf(Last(DriveInputs)).drive)

\* C6 witness: two inputs, the first with a drive, the second with a root and
\* no drive; the drive is still there
C6_Witness ==
    /\ pc = "parsed"
    /\ Len(paths) = 2
    /\ DriveInputs = {1}
    /\ AnchoredInputs = {1, 2}
    /\ drive # <<>>
    /\ drive = SplitOf(1).drive

-----------------------------------------------------------------------------
(* Properties of the PurePath methods (checked under SpecAlgebra) *)

\* C3: PurePath values are immutable: whatever method is called, and whether
\* it succeeds or fails, every path the program already holds keeps its
\* drive, root, parts and String().
C3_Immutable ==
    [][\A i \in DOMAIN objs :
           /\ View(heap', objs'[i]) = View(heap, objs[i])
           /\ String(View(heap', objs'[i]), flavor) = String(View(heap, objs[i]), flavor)]_vars

\* the path the last call returned
Result == View(heap, objs[ret[2]])

Anchored(v) == v.drive # <<>> \/ v.root # <<>>

\* the segments of a path: its parts without the anchor
Segs(v) == IF Anchored(v) THEN Tail(v.parts) ELSE v.parts

\* the elements a path consists of: the drive and the root of a rooted path,
\* the drive of a rootless one that has a drive, then the segments
PathSeq(v) ==
    (IF v.root # <<>> THEN <<v.drive, v.root>>
     ELSE IF v.drive # <<>> THEN <<v.drive>> ELSE <<>>) \o Segs(v)

\* a is a prefix of b after case folding
IsFoldedPrefix(a, b) ==
    /\ Len(a) <= Len(b)
    /\ \A i \in DOMAIN a : Casefold(flavor, a[i]) = Casefold(flavor, b[i])

CleanString(v) == String(Clean(v, flavor), flavor)

-----------------------------------------------------------------------------
(* Properties of Match (checked under SpecAlgebra) *)

\* the pattern of the last Match call as Match parses it
PatternOf == parseParts(<<Casefold(flavor, call.arg)>>, flavor)

\* the segments of the pattern of the last Match call
PatternSegs == Segments(Casefold(flavor, call.arg), SepChars(flavor))

\* the parts of the receiver of the last call, case-folded
FoldedParts == [i \in DOMAIN call.recv.parts |-> Casefold(flavor, call.recv.parts[i])]

\* the k-th of segs glob-matches the part it lies on when segs is
\* right-aligned with the receiver's parts
AlignedMatch(segs, k) ==
    GlobMatch(segs[k], FoldedParts[Len(FoldedParts) - Len(segs) + k])

\* C13: Match with a pattern without drive and root: true exactly when the
\* pattern has segments, no more of them than the path has parts, and every
\* segment glob-matches the part it lies on when the pattern is right-aligned
\* with the path ("**" matching as "*"); so false for a pattern with more
\* segments than the path has parts and for one without segments, and no
\* part outside the path's parts is compared.
C13_RelativeMatch ==
    (pc = "Match" /\ ~Anchored(PatternOf)) =>
        LET segs == PatternSegs
            n    == Len(call.recv.parts)
        IN  /\ ret[2] = ( /\ segs # <<>>
                          /\ Len(segs) <= n
                          /\ \A k \in DOMAIN segs : AlignedMatch(segs, k) )
            /\ (segs = <<>> \/ Len(segs) > n) => ret[2] = FALSE
            /\ ret[2] => \A k \in DOMAIN segs : n - Len(segs) + k \in 1..n

\* C13 witness: a two-segment pattern with a wildcard has matched the last
\* two parts of a path
C13_Witness ==
    /\ pc = "Match"
    /\ ret[2] = TRUE
    /\ call.arg = <<"a", "/", "*", ".", "c">>
    /\ Len(call.recv.parts) >= 2

\* C14: a Match pattern that supplies a drive or a root matches only paths
\* with exactly the pattern's anchor and exactly as many parts: Match returns
\* true only if the path's case-folded drive+root equals the pattern's
\* drive+root and the part counts are equal.
C14_AnchoredMatch ==
    (pc = "Match" /\ Anchored(PatternOf) /\ ret[2]) =>
        /\ Casefold(flavor, call.recv.drive \o call.recv.root)
               = PatternOf.drive \o PatternOf.root
        /\ Len(call.recv.parts) = Len(PatternOf.parts)

-----------------------------------------------------------------------------
(* Properties of the renaming methods (checked under SpecAlgebra) *)

\* the parts of the receiver of the last call without the last one
Front == SubSeq(call.recv.parts, 1, Len(call.recv.parts) - 1)

C16_WithSuffix ==
    pc = "WithSuffix" =>
        LET s_ == call.arg
        IN  IF \/ (s_ # <<>> /\ s_[1] # Dot)
               \/ s_ = <<Dot>>
               \/ Range(s_) \cap SepChars(flavor) # {}
               \/ Segs(call.recv) = <<>>
            THEN ret[1] = "error"
            ELSE /\ ret[1] = "path"
                 /\ Result.drive = call.recv.drive
                 /\ Result.root = call.recv.root
                 /\ Result.parts = Append(Front, Stem(call.recv) \o s_)
                 /\ Name(Result) = Stem(call.recv) \o s_

\* C16 witness: the empty suffix has stripped the suffix of a name that had
\* one
C16_Witness ==
    /\ pc = "WithSuffix"
    /\ ret[1] = "path"
    /\ call.arg = <<>>
    /\ Suffix(call.recv) # <<>>
    /\ Name(Result) = Stem(call.recv)
    /\ Name(Result) # Name(call.recv)

\* the last call stripped the suffix of a path that had one
StrippedSuffix ==
    /\ pc = "WithSuffix"
    /\ ret[1] = "path"
    /\ call.arg = <<>>
    /\ Suffix(call.recv) # <<>>

\* the outcome of WithSuffix(the receiver's old suffix) on the stripped path
Restored == WithSuffix(Result, flavor, Suffix(call.recv))

\* C17 as stated: for every path p with a non-empty Suffix() s,
\* p.WithSuffix("") followed by WithSuffix(s) yields a path whose Name() is
\* p.Name(), also when the name has several suffixes.
C17_SuffixRoundTrip ==
    StrippedSuffix => (~Restored.err /\ Name(Restored) = Name(call.recv))

\* C17 amended: p.WithSuffix("") followed by WithSuffix(s) succeeds; it
\* yields p.Name() when the stripped name has no suffix left, and otherwise
\* replaces the suffix that is left by s.
C17_SingleSuffixRoundTrip ==
    StrippedSuffix =>
        /\ ~Restored.err
        /\ Name(Restored) = (IF Suffix(Result) = <<>>
                             THEN Name(call.recv)
                             ELSE Stem(Result) \o Suffix(call.recv))

\* C17 witness: the suffix of a name with a leading dot and one suffix has
\* been stripped, and putting it back gives the name again
C17_Witness ==
    /\ StrippedSuffix
    /\ Name(call.recv) = <<Dot, "a", Dot, "a">>
    /\ Name(Result) = <<Dot, "a">>
    /\ Name(Restored) = Name(call.recv)

\* the positions of the dots in a string (1-based)
DotsOf(name) == {i \in DOMAIN name : name[i] = Dot}

\* the last dot of the name lies strictly inside it
HasInteriorLastDot(name) ==
    /\ DotsOf(name) # {}
    /\ 1 < Last(DotsOf(name))
    /\ Last(DotsOf(name)) < Len(name)

\* C18: Suffix() is non-empty exactly when the last dot of the name is at an
\* index i with 0 < i < len(name)-1, and then it is name[i:]; names without
\* such a dot (no dot, only a leading dot, ending in a dot, only dots) have an
\* empty Suffix and an empty Suffixes list; Stem() followed by Suffix() is
\* Name(); a non-empty Suffixes() ends with Suffix().
C18_SuffixStem ==
    LET name == Name(call.recv)
    IN  /\ pc = "Suffix" =>
               /\ (ret[2] # <<>>) = HasInteriorLastDot(name)
               /\ HasInteriorLastDot(name) =>
                      ret[2] = SubSeq(name, Last(DotsOf(name)), Len(name))
        /\ pc = "Suffixes" =>
               /\ ~HasInteriorLastDot(name) => ret[2] = <<>>
               /\ ret[2] # <<>> => ret[2][Len(ret[2])] = Suffix(call.recv)
        /\ pc = "Stem" => ret[2] \o Suffix(call.recv) = name

\* C18 witness: Suffixes() has returned two suffixes for a name
C18_Witness ==
    /\ pc = "Suffixes"
    /\ Name(call.recv) = <<"a", Dot, "a", Dot, "a">>
    /\ ret[2] = <<<<Dot, "a">>, <<Dot, "a">>>>

-----------------------------------------------------------------------------
(* Properties of Parent and Parents (checked under SpecLineage) *)

\* the value of a path without its last part; a path with no part beyond its
\* anchor is its own parent
ParentOf(v) ==
    IF Segs(v) = <<>> THEN v ELSE [v EXCEPT !.parts = SubSeq(v.parts, 1, Len(v.parts) - 1)]

\* the k-th ancestor of a path
RECURSIVE Ancestor(_, _)
Ancestor(v, k) == IF k = 0 THEN v ELSE ParentOf(Ancestor(v, k - 1))

\* the paths the last call returned, in the order of the returned slice
Results == [k \in 1..ret[2] |-> View(heap, objs[Len(objs) - ret[2] + k])]

\* C19: Parent() drops the last part, and returns the path itself once no
\* part beyond the anchor is left, so n applications to a path with n parts
\* beyond its anchor reach the bare anchor or the empty path and stay there;
\* Parents() returns exactly these n ancestors, the nearest first
C19_ParentLineage ==
    /\ pc = "Parent" =>
           /\ Result = ParentOf(call.recv)
           /\ Segs(call.recv) = <<>> => Result = call.recv
    /\ pc = "Parents" =>
           LET n == Len(Segs(call.recv))
           IN  /\ ret[2] = n
               /\ \A k \in 1..n : Results[k] = Ancestor(call.recv, k)
               /\ Segs(Ancestor(call.recv, n)) = <<>>
               /\ Ancestor(call.recv, n + 1) = Ancestor(call.recv, n)

\* Parents() of a rooted path with two parts beyond the root returned its
\* parent and then the bare root
C19_Witness ==
    /\ pc = "Parents"
    /\ call.recv.root # <<>>
    /\ Len(Segs(call.recv)) = 2
    /\ ret[2] = 2
    /\ Results[2].parts = <<call.recv.root>>

-----------------------------------------------------------------------------
(* Properties of ResolveAll (checked under SpecResolve) *)

\* the path ResolveAll returned, and the string it was called on
Resolved == [drive |-> drive, root |-> root, parts |-> parts]
Given == call.arg

\* the path formed by the first k parts of v
FirstParts(v, k) == [v EXCEPT !.parts = SubSeq(v.parts, 1, k)]

\* the place a path string denotes: every symlink on the way followed
Place(str) == Walk(fs, StartOf(str), KernelNames(str), FALSE, MaxSymlinks)

\* C20: when ResolveAll returns without error, no prefix of the returned
\* path is a symlink, and the returned path denotes the place the input
\* denotes with every symlink on the way replaced by its target
C20_ResolveAll ==
    pc = "return" =>
        /\ \A k \in 1..Len(Resolved.parts) :
               LET st == Lstat(fs, String(FirstParts(Resolved, k), flavor))
               IN  ~st.err /\ ~st.link
        /\ ~Place(Given).err
        /\ ~Place(String(Resolved, flavor)).err
        /\ Place(String(Resolved, flavor)).at = Place(Given).at

\* ResolveAll returned after following a chain of two links, the second one
\* with a relative target
C20_Witness ==
    /\ pc = "return"
    /\ depth = 3
    /\ Given = <<"/", "l", "/", "a">>
    /\ fs[<< <<"l">> >>] = <<"/", "a", "/", "l">>
    /\ fs[<< <<"a">>, <<"l">> >>] = <<Dot, Dot>>
    /\ String(Resolved, flavor) = <<"/", "a", "/", Dot, Dot, "/", "a">>

\* the path ResolveAll was called on
Original == parseParts(<<Given>>, flavor)

\* C21: when ResolveAll returns an error, the path returned with it is the
\* path ResolveAll was called on, also when symlinks were replaced before
\* the error occurred
C21_ErrorReturnsOriginal ==
    pc = "error" => Resolved = Original

\* C22: on a filesystem that does not implement afero.LinkReader,
\* ResolveAll fails with ErrDoesNotImplement for every path
C22_NoLinkReaderFails ==
    (pc \in {"return", "error"} /\ "afero.LinkReader" \notin caps)
        => ret = <<"error", ErrDoesNotImplement>>

\* the number of symlinks the filesystem follows when it looks up the path v
\* to its end (or to the first missing name)
LinksOnTheWay(v) ==
    MaxSymlinks - Walk(fs, StartOf(String(v, flavor)), KernelNames(String(v, flavor)),
                       FALSE, MaxSymlinks).left

\* C23: ResolveAll terminates on a filesystem whose symlink graph is
\* acyclic: every recursive call of resolveAllHelper is made on a path with
\* fewer symlinks on its way than the path of the calling one, a number that
\* is finite without a cycle, so the recursion ends without any depth cap
C23_Terminates ==
    [][(pc = "resolveAllHelper" /\ pc' = "resolveAllHelper" /\ Acyclic)
          => LinksOnTheWay(Resolved') < LinksOnTheWay(Resolved)]_vars

\* ResolveAll returned after four recursive calls on an acyclic filesystem
C23_Witness ==
    /\ pc = "return"
    /\ Acyclic
    /\ depth = 5

-----------------------------------------------------------------------------
(* Properties of GetLatest (checked under SpecLatest) *)

\* the directory as it was when GetLatest was called
Listed == call.arg

\* no entry was removed since
Unchanged == fs = Listed

\* C27: on a directory that does not change GetLatest returns an entry whose
\* modification time is at least that of every other entry, wherever it is
\* listed, and ErrDirectoryEmpty on an empty directory
C27_GetLatest ==
    (pc \in {"return", "error"} /\ Unchanged) =>
        IF DOMAIN Listed = {}
        THEN ret = <<"error", ErrDirectoryEmpty>>
        ELSE /\ ret[1] = "path"
             /\ \A name \in DOMAIN Listed : Listed[ret[2]] >= Listed[name]

\* C28: GetLatest on a non-empty directory returns without error, also when
\* entries were removed after the directory was listed
C28_RemovalSwallowed ==
    (pc \in {"return", "error"} /\ DOMAIN Listed # {}) => ret[1] = "path"

-----------------------------------------------------------------------------
(* Further properties of the renaming methods and of RelativeTo *)

\* C29: a path returned without error by WithName, WithStem or WithSuffix is
\* in normalized form: no part beyond the anchor is empty, "." or holds a
\* separator, and parsing its string gives its drive, root and parts again
C29_RenamedNormalized ==
    (pc \in {"WithName", "WithStem", "WithSuffix"} /\ ret[1] = "path") =>
        /\ \A i \in DOMAIN Segs(Result) :
               LET seg == Segs(Result)[i]
               IN  /\ seg # <<>>
                   /\ seg # <<Dot>>
                   /\ \A k \in DOMAIN seg : seg[k] \notin SepChars(flavor)
        /\ parseParts(<<String(Result, flavor)>>, flavor) = Result

\* C30: for POSIX paths, when p.RelativeTo(base) succeeds with result r,
\* base.Join(r.String()) has the drive, root and parts of p
C30_PosixJoinInverse ==
    (pc = "RelativeTo" /\ ret[1] = "path" /\ flavor = "posix") =>
        Join(parseParts(call.arg, flavor), flavor, <<String(Result, flavor)>>) = call.recv

\* a POSIX path with the root "//" has been made relative to that root
C30_Witness ==
    /\ pc = "RelativeTo"
    /\ ret[1] = "path"
    /\ flavor = "posix"
    /\ call.recv.root = <<Slash, Slash>>
    /\ call.arg = <<<<Slash, Slash>>>>
    /\ Result.parts = <<<<"a">>>>

-----------------------------------------------------------------------------
(* Properties of Walk (checked under SpecWalk) *)

\* C24: once the visitor has returned a value other than continue it is not
\* invoked again and the walk is over; Walk returns success if the value was
\* the stop signal and exactly that value if it was any other error
C24_VisitorHalts ==
    /\ \A i \in 1..(Len(walk.returns) - 1) : walk.returns[i] = Continue
    /\ \A i \in DOMAIN walk.returns :
           walk.returns[i] # Continue =>
               /\ pc = "return"
               /\ walk.returns[i] = ErrStopWalk => ret = <<"nil">>
               /\ walk.returns[i] # ErrStopWalk => ret = <<"error", walk.returns[i]>>

\* the visitor returned the stop signal at its first invocation on the tree
\* of the tests, under the depth-first order
C24_Witness ==
    /\ pc = "return"
    /\ walk.tree = TwoFilesAtRootTwoInSubdir
    /\ walk.opts.Algorithm = AlgorithmDepthFirst
    /\ walk.returns = <<ErrStopWalk>>
    /\ ret = <<"nil">>

\* C25: Walk with an order that is neither PreorderFlat nor DepthFirst
\* returns an error, invokes the visitor not once and reads no directory
C25_UnknownOrder ==
    (pc # "start" /\ walk.opts.Algorithm \notin {AlgorithmBasic, AlgorithmDepthFirst}) =>
        /\ pc = "return"
        /\ ret[1] = "error"
        /\ walk.calls = <<>>
        /\ walk.reads = <<>>

\* Walk has returned for an unknown order on the tree of the tests
C25_Witness ==
    /\ pc = "return"
    /\ walk.opts.Algorithm = ConfusedWandering
    /\ walk.tree = TwoFilesAtRootTwoInSubdir
    /\ ret = <<"error", ErrInvalidAlgorithm>>

\* the entries of the tree within the depth limit: depth -1 is no limit, and
\* the children of the root are at depth 0
EntriesWithin(tree, maxDepth) == {e \in tree : maxDepth = -1 \/ Len(e) - 1 <= maxDepth}

\* C26: with all visit flags enabled, no size bounds and a visitor that
\* always continues, a walk under either order invokes the visitor exactly
\* once for every entry within the depth limit, and for nothing else
C26_VisitsEachOnce ==
    (/\ pc = "return"
     /\ KnownOrder(walk.opts.Algorithm)
     /\ walk.opts.VisitFiles /\ walk.opts.VisitDirs
     /\ walk.opts.MinimumFileSize = -1 /\ walk.opts.MaximumFileSize = -1
     /\ \A i \in DOMAIN walk.returns : walk.returns[i] = Continue) =>
        /\ Range(walk.calls) = EntriesWithin(walk.tree, walk.opts.Depth)
        /\ Len(walk.calls) = Cardinality(EntriesWithin(walk.tree, walk.opts.Depth))
        /\ walk.tree = TwoFilesAtRootTwoInSubdir =>
               Len(walk.calls) = IF walk.opts.Depth = 0 THEN 3 ELSE 5

\* a walk of depth 0 over the tree of the tests has made its three visits
\* under PreorderFlat
C26_Witness ==
    /\ pc = "return"
    /\ walk.opts.Algorithm = AlgorithmBasic
    /\ walk.opts.Depth = 0
    /\ walk.opts.VisitFiles /\ walk.opts.VisitDirs /\ walk.opts.MinimumFileSize = -1
    /\ walk.tree = TwoFilesAtRootTwoInSubdir
    /\ walk.returns = <<Continue, Continue, Continue>>

====
